---------------------------- MODULE Spec2Model ----------------------------
(***************************************************************************)
(* A model of backend/main.py of the Mutagen GUI backend: the status-text  *)
(* parser, name sanitization, session creation with SSH config synthesis,  *)
(* conflict listing, the session orchestration handlers, the list_sessions *)
(* endpoint, run_command and the websocket ConnectionManager.               *)
(*                                                                         *)
(* Text is modelled as a sequence of atoms.  An atom is a run of           *)
(* characters the code never looks inside (a keyword such as "Name:", a    *)
(* word, a path) or a single character the code does look at (" ", "\t",   *)
(* "\n", "_", "-").                                                        *)
(***************************************************************************)
EXTENDS Integers, Sequences, FiniteSets, TLC

VARIABLES
    \* MutagenManager._parse_sessions
    output,         \* the status text handed to _parse_sessions
    sessions,       \* the list it returned
    parsePc,        \* "call" before the call, "done" after it
    \* MutagenManager.sanitize_name
    name,           \* a connection name
    sanitized,      \* sanitize_name(name)
    resanitized,    \* sanitize_name(sanitize_name(name))
    sanPc,          \* "start", "once", "twice": the calls made so far
    \* MutagenManager.create_session
    mutagen_bin,    \* self.mutagen_bin: TRUE when _find_mutagen found a binary
    ssh_config,     \* the text of ~/.ssh/config
    call,           \* the last create_session call: its config, the steps it
                    \* ran with their outcomes, the engine arguments, the result
    createLog,      \* history: for each call made, its name, whether its key
                    \* file existed, whether it ran the SSH config step
    nCreates,       \* create_session calls made so far
    \* get_session_conflicts
    verbose,        \* what "sync list --long <name>" prints
    verboseProc,    \* how that engine process ends
    conflictsResp,  \* the response of get_session_conflicts
    conflictsPc,    \* "call" before the call, "done" after it
    \* the engine and the request handlers
    engine,         \* the sessions the sync engine holds, oldest first
    reqs,           \* per slot, the request in flight: its operation, its
                    \* arguments, where it stands, the run_command calls it
                    \* has made with their outcomes, and its response
    \* the list_sessions endpoint
    daemon,         \* "running" or "stopped": the engine's daemon
    listReq,        \* the list_sessions request in flight
    \* MutagenManager.run_command
    run,            \* one run_command call: where it stands, the processes
                    \* it has spawned, how it ended
    \* ConnectionManager
    active_connections,  \* self.active_connections
    cast            \* the broadcast in flight and the request that sent it

parseVars == <<output, sessions, parsePc>>
sanVars == <<name, sanitized, resanitized, sanPc>>
createVars == <<mutagen_bin, ssh_config, call, createLog, nCreates>>
conflictVars == <<verbose, verboseProc, conflictsResp, conflictsPc>>
orchVars == <<engine, reqs>>
listVars == <<daemon, listReq>>
runVars == <<run>>
castVars == <<active_connections, cast>>
vars == <<parseVars, sanVars, createVars, conflictVars, orchVars, listVars,
          runVars, castVars>>

-----------------------------------------------------------------------------
(* Bounds of the model *)

\* the longest status text, in lines
MaxLines == 4

\* the longest connection name, in characters
MaxNameLen == 3

\* the most create_session calls in one behaviour
MaxCreates == 2

\* the longest verbose status text, in lines
MaxConflictLines == 3

\* the most sessions the engine holds
MaxSessions == 2

-----------------------------------------------------------------------------
(* Text helpers: str.strip, str.split, str.startswith, "in" *)

\* the characters str.strip() and str.split() treat as whitespace
Whitespace == {" ", "\t", "\n"}

RECURSIVE LStrip(_)
LStrip(s) ==
    IF s # <<>> /\ Head(s) \in Whitespace THEN LStrip(Tail(s)) ELSE s

RECURSIVE RStrip(_)
RStrip(s) ==
    IF s # <<>> /\ s[Len(s)] \in Whitespace
    THEN RStrip(SubSeq(s, 1, Len(s) - 1))
    ELSE s

\* s.strip()
Strip(s) == RStrip(LStrip(s))

\* s.startswith(k), k a keyword atom
StartsWith(s, k) == s # <<>> /\ s[1] = k

\* k in s, k an atom
Contains(s, k) == \E i \in 1..Len(s) : s[i] = k

\* the atoms that hold a colon, and what follows the first colon inside each
ColonRest(a) ==
    CASE a = "u@h:/remote" -> <<"/remote">>
      [] a \in {"Name:", "Identifier:", "Status:", "Alpha:", "Beta:",
                "URL:", "Connected:", ":"} -> <<>>
      [] OTHER -> <<"<none>">>

HasColon(a) == ColonRest(a) # <<"<none>">>

RECURSIVE AfterColon(_)
\* s.split(":", 1)[1]: everything after the first colon of s
AfterColon(s) ==
    IF s = <<>> THEN <<>>
    ELSE IF HasColon(Head(s)) THEN ColonRest(Head(s)) \o Tail(s)
    ELSE AfterColon(Tail(s))

RECURSIVE SplitLines(_)
\* s.split('\n'): the lines of s, always at least one
SplitLines(s) ==
    IF \A i \in 1..Len(s) : s[i] # "\n" THEN <<s>>
    ELSE LET i == CHOOSE j \in 1..Len(s) :
                      s[j] = "\n" /\ \A k \in 1..(j - 1) : s[k] # "\n"
         IN  <<SubSeq(s, 1, i - 1)>> \o SplitLines(SubSeq(s, i + 1, Len(s)))

RECURSIVE JoinLines(_)
\* '\n'.join(ls)
JoinLines(ls) ==
    IF ls = <<>> THEN <<>>
    ELSE IF Len(ls) = 1 THEN ls[1]
    ELSE ls[1] \o <<"\n">> \o JoinLines(Tail(ls))

-----------------------------------------------------------------------------
(* Python dicts: functions whose domain is the set of keys present *)

EmptyDict == [k \in {} |-> 0]

DictSet(d, k, v) == [y \in (DOMAIN d) \cup {k} |-> IF y = k THEN v ELSE d[y]]

Has(d, k) == k \in DOMAIN d

-----------------------------------------------------------------------------
(* MutagenManager._parse_sessions *)

\* the locals before the loop: no session open, current_endpoint not yet bound
ParseStart ==
    [sessions |-> <<>>, open |-> FALSE, current_session |-> EmptyDict,
     current_endpoint |-> "unbound"]

\* "current_endpoint" in locals()
EndpointBound(st) == st.current_endpoint # "unbound"

\* the branch of the if/elif chain a stripped line takes
LineBranch(line, st) ==
    IF StartsWith(line, "Name:") THEN "name"
    ELSE IF ~st.open THEN "skip"
    ELSE IF StartsWith(line, "Identifier:") THEN "identifier"
    ELSE IF StartsWith(line, "Status:") THEN "status"
    ELSE IF StartsWith(line, "Alpha:") THEN "alpha"
    ELSE IF StartsWith(line, "Beta:") THEN "beta"
    ELSE IF Contains(line, "URL:") /\ EndpointBound(st) THEN "url"
    ELSE IF Contains(line, "Connected:") /\ EndpointBound(st) THEN "connected"
    ELSE "skip"

\* one iteration of the loop over the lines; flush: the open session is
\* appended when the next one starts; yes: the atom looked for on a
\* Connected: line
ParseLineWith(st, raw, flush, yes) ==
    LET line == Strip(raw)
        b    == LineBranch(line, st)
    IN  CASE b = "name" ->
                [st EXCEPT !.sessions = IF st.open /\ flush
                                        THEN Append(@, st.current_session)
                                        ELSE @,
                           !.open = TRUE,
                           !.current_session =
                               [name |-> Strip(AfterColon(line)),
                                alpha |-> EmptyDict, beta |-> EmptyDict]]
          [] b = "identifier" ->
                [st EXCEPT !.current_session =
                               DictSet(@, "identifier", Strip(AfterColon(line)))]
          [] b = "status" ->
                [st EXCEPT !.current_session =
                               DictSet(@, "status", Strip(AfterColon(line)))]
          [] b = "alpha" -> [st EXCEPT !.current_endpoint = "alpha"]
          [] b = "beta" -> [st EXCEPT !.current_endpoint = "beta"]
          [] b = "url" ->
                [st EXCEPT !.current_session[st.current_endpoint] =
                               DictSet(@, "url", Strip(AfterColon(line)))]
          [] b = "connected" ->
                [st EXCEPT !.current_session[st.current_endpoint] =
                               DictSet(@, "connected", Contains(line, yes))]
          [] OTHER -> st

\* a variant that forgets to append the open session when the next one starts
ParseLine_NoFlush(st, raw) == ParseLineWith(st, raw, FALSE, "Yes")

ParseLine(st, raw) == ParseLineWith(st, raw, TRUE, "Yes")

RECURSIVE ParseLoop(_, _)
ParseLoop(st, lines) ==
    IF lines = <<>> THEN st
    ELSE ParseLoop(ParseLine(st, Head(lines)), Tail(lines))

\* _parse_sessions(output)
ParseSessions(text) ==
    LET st == ParseLoop(ParseStart, SplitLines(text))
    IN  IF st.open THEN Append(st.sessions, st.current_session)
        ELSE st.sessions

-----------------------------------------------------------------------------
(* MutagenManager.sanitize_name *)

\* s.replace(old, new), old and new single characters
Replace(s, old, new) == [i \in 1..Len(s) |-> IF s[i] = old THEN new ELSE s[i]]

\* a variant with the two replacements chained the wrong way round
SanitizeName_Chained(n) == Replace(Replace(n, "_", "-"), " ", "_")

\* name.replace(' ', '-').replace('_', '-')
SanitizeName(n) == Replace(Replace(n, " ", "-"), "_", "-")

-----------------------------------------------------------------------------
(* MutagenManager.run_command *)

\* the outcome of run_command: without a binary it raises before any spawn;
\* otherwise one process is spawned and proc is how it ended ("ok": exit 0,
\* "failed": non-zero exit, "timeout": not finished within the bound)
RunCommand(bin, proc) == IF ~bin THEN "binary_not_found" ELSE proc

-----------------------------------------------------------------------------
(* MutagenManager.create_session *)

\* needle in haystack, both texts
IsSubText(needle, haystack) ==
    \E i \in 0..(Len(haystack) - Len(needle)) :
        SubSeq(haystack, i + 1, i + Len(needle)) = needle

\* str(config.port)
PortText(port) == IF port = 22 THEN "22" ELSE "2222"

\* config.initial_sync_direction and config.initial_sync_direction != 'skip'
RunsInitialSync(cfg) ==
    cfg.initial_sync_direction # "" /\ cfg.initial_sync_direction # "skip"

\* a variant that goes on after a failed initial copy
InitialSyncFails_Never(cfg, env) == FALSE

\* perform_initial_sync raises: rsync exits non-zero or times out
InitialSyncFails(cfg, env) == RunsInitialSync(cfg) /\ env.rsync # "ok"

\* config.ssh_key_path is set and key_path.exists()
KeyFileExists(cfg, env) == cfg.ssh_key_path # "" /\ env.key_exists

\* current_perms != 0o600, so key_path.chmod(0o600) is called
ChmodRuns(cfg, env) == KeyFileExists(cfg, env) /\ ~env.perms_600

\* key_path.chmod raises; nothing catches it inside create_session
ChmodFails(cfg, env) == ChmodRuns(cfg, env) /\ env.chmod = "fails"

\* the SSH config step (lines 306-332) is reached
SynthesisRuns(cfg, env) ==
    /\ ~InitialSyncFails(cfg, env)
    /\ KeyFileExists(cfg, env)
    /\ ~ChmodFails(cfg, env)

\* host_alias = f"mutagen-{session_name}"
HostAlias(session_name) == <<"mutagen-">> \o session_name

\* entry_marker = f"# Mutagen GUI: {config.name}"
EntryMarker(cfg) == <<"# Mutagen GUI: ">> \o cfg.name

\* new_entry
NewEntry(cfg) ==
    <<"\n">> \o EntryMarker(cfg) \o <<"\n">>
    \o <<"Host ">> \o HostAlias(SanitizeName(cfg.name)) \o <<"\n">>
    \o <<"  HostName ", cfg.host, "\n">>
    \o <<"  User ", cfg.username, "\n">>
    \o <<"  Port ", PortText(cfg.port), "\n">>
    \o <<"  IdentityFile ", cfg.ssh_key_path, "\n">>
    \o <<"  StrictHostKeyChecking no", "\n">>
    \o <<"  UserKnownHostsFile /dev/null", "\n", "\n">>

\* a variant that appends the entry without looking for the marker
SynthesizeEntry_Always(cfg, text) == text \o NewEntry(cfg)

\* the text of ~/.ssh/config after the SSH config step
SynthesizeEntry(cfg, text) ==
    IF ~IsSubText(EntryMarker(cfg), text) THEN text \o NewEntry(cfg) ELSE text

\* remote_url
RemoteUrl(cfg, env) ==
    IF KeyFileExists(cfg, env)
    THEN <<cfg.username, "@">> \o HostAlias(SanitizeName(cfg.name))
         \o <<":", cfg.remote_path>>
    ELSE IF cfg.port # 0 /\ cfg.port # 22
    THEN <<cfg.username, "@", cfg.host, ":", PortText(cfg.port), ":",
           cfg.remote_path>>
    ELSE <<cfg.username, "@", cfg.host, ":", cfg.remote_path>>

\* a variant that puts the local path first in every mode
EndpointOrder_LocalFirst(cfg, remote_url) == <<<<cfg.local_path>>, remote_url>>

\* the two endpoint arguments, by sync mode
EndpointOrder(cfg, remote_url) ==
    IF cfg.sync_mode = "one-way-replica"
    THEN <<remote_url, <<cfg.local_path>>>>
    ELSE <<<<cfg.local_path>>, remote_url>>

\* args, as passed to run_command
CreateArgs(cfg, env) ==
    << <<"sync">>, <<"create">>,
       <<"--name=">> \o SanitizeName(cfg.name),
       <<"--mode=", cfg.sync_mode>>,
       <<"--default-file-mode=0644">>,
       <<"--default-directory-mode=0755">> >>
    \o EndpointOrder(cfg, RemoteUrl(cfg, env))

Step(op, out) == <<[op |-> op, out |-> out]>>

\* the ssh-add calls inside the try/except: every failure is swallowed
AgentSteps(env) ==
    CASE env.agent = "no_ssh_add" -> Step("ssh-add -l", "raises")
      [] env.agent = "no_agent" -> Step("ssh-add -l", "nonzero")
      [] env.agent = "add_timeout" ->
            Step("ssh-add -l", "0") \o Step("ssh-add key", "timeout")
      [] OTHER -> Step("ssh-add -l", "0") \o Step("ssh-add key", "ok")

\* the external steps one create_session call runs, in order, with outcomes
CreateSteps(cfg, env, bin, text) ==
    (IF RunsInitialSync(cfg) THEN Step("rsync", env.rsync) ELSE <<>>)
    \o IF InitialSyncFails(cfg, env) THEN <<>>
       ELSE (IF ChmodRuns(cfg, env) THEN Step("chmod", env.chmod) ELSE <<>>)
            \o IF ChmodFails(cfg, env) THEN <<>>
               ELSE (IF KeyFileExists(cfg, env)
                     THEN Step("ssh_config",
                               IF SynthesizeEntry(cfg, text) = text
                               THEN "kept" ELSE "appended")
                          \o AgentSteps(env)
                     ELSE <<>>)
                    \o Step("run_command", RunCommand(bin, env.engine))

\* create_session(config) in environment env: the steps it ran, the
\* arguments it handed to run_command (none when it raised before), how it
\* ended, and the text of ~/.ssh/config afterwards
CreateSession(cfg, env, bin, text) ==
    LET steps == CreateSteps(cfg, env, bin, text)
        last  == steps[Len(steps)]
    IN  [steps |-> steps,
         args |-> IF last.op = "run_command" THEN CreateArgs(cfg, env) ELSE <<>>,
         result |-> CASE last.op = "rsync" -> "initial_sync_failed"
                      [] last.op = "chmod" -> "chmod_failed"
                      [] OTHER -> last.out,
         ssh_config |-> IF SynthesisRuns(cfg, env)
                        THEN SynthesizeEntry(cfg, text) ELSE text]

\* what a call can find at config.ssh_key_path: no file; a file with mode
\* 0600; a file with another mode, which chmod fixes or fails to fix; and
\* what the ssh-add calls do
KeyEnvs(cfg, agents) ==
    IF cfg.ssh_key_path = ""
    THEN {[key_exists |-> FALSE, perms_600 |-> TRUE, chmod |-> "ok",
           agent |-> "added"]}
    ELSE {[key_exists |-> FALSE, perms_600 |-> TRUE, chmod |-> "ok",
           agent |-> "added"],
          [key_exists |-> TRUE, perms_600 |-> FALSE, chmod |-> "fails",
           agent |-> "added"]}
         \cup {[key_exists |-> TRUE, perms_600 |-> p, chmod |-> "ok",
                agent |-> a] : p \in BOOLEAN, a \in agents}

\* the environments of a call: how rsync, the key file, the credential agent
\* and the engine process behave
Envs(cfg, rsyncs, agents, engines) ==
    { [rsync |-> r, key_exists |-> k.key_exists, perms_600 |-> k.perms_600,
       chmod |-> k.chmod, agent |-> k.agent, engine |-> e] :
          r \in IF RunsInitialSync(cfg) THEN rsyncs ELSE {"ok"},
          k \in KeyEnvs(cfg, agents),
          e \in engines }

EnvsFor(cfg) ==
    Envs(cfg, {"ok", "failed", "timeout"},
         {"added", "add_timeout", "no_agent", "no_ssh_add"},
         {"ok", "failed", "timeout"})

\* fewer outcomes of rsync, the credential agent and the engine process
SynthEnvsFor(cfg) == Envs(cfg, {"ok", "failed"}, {"added"}, {"ok"})

\* the connection descriptors create_session is called with
ConnNames == { <<"a">>, <<"a", " ", "b">>, <<"a", "_", "b">> }

Configs ==
    [name : ConnNames, host : {"h1", "h2"}, port : {22, 2222},
     username : {"u"}, remote_path : {"/remote"}, local_path : {"/local"},
     ssh_key_path : {"", "/k1", "/k2"},
     sync_mode : {"two-way-safe", "one-way-safe", "one-way-replica"},
     initial_sync_direction : {"", "skip", "download"}]

\* the descriptors of the calls that are repeated: one mode, with and without
\* an initial copy
SynthConfigs ==
    { cfg \in Configs : /\ cfg.sync_mode = "two-way-safe"
                        /\ cfg.initial_sync_direction # "skip"
                        /\ cfg.host = "h1" \/ cfg.port = 22 }

\* every descriptor with every environment
AllCalls == UNION { { <<cfg, env>> : env \in EnvsFor(cfg) } : cfg \in Configs }

\* the repeated calls
SynthCalls ==
    UNION { { <<cfg, env>> : env \in SynthEnvsFor(cfg) } : cfg \in SynthConfigs }

\* one create_session call, its descriptor and environment from calls
CreateSessionCall(calls) ==
    /\ \E c \in calls :
           LET cfg == c[1]
               env == c[2]
               r   == CreateSession(cfg, env, mutagen_bin, ssh_config) IN
           /\ ssh_config' = r.ssh_config
           /\ call' = [config |-> cfg, steps |-> r.steps, args |-> r.args,
                       result |-> r.result]
           /\ createLog' = createLog \cup
                  {[name |-> cfg.name,
                    key_exists |-> KeyFileExists(cfg, env),
                    synthesized |-> SynthesisRuns(cfg, env)]}
    /\ nCreates' = nCreates + 1
    /\ UNCHANGED <<mutagen_bin, parseVars, sanVars, conflictVars, orchVars,
                 listVars, runVars, castVars>>

-----------------------------------------------------------------------------
(* get_session_conflicts *)

RECURSIVE SplitWords(_)
\* s.split(): the maximal runs of non-whitespace characters of s
SplitWords(s) ==
    LET t == LStrip(s) IN
    IF t = <<>> THEN <<>>
    ELSE LET ends == {j \in 1..Len(t) : t[j] \in Whitespace}
             n    == IF ends = {} THEN Len(t) + 1
                     ELSE CHOOSE j \in ends : \A k \in ends : j <= k
         IN  <<SubSeq(t, 1, n - 1)>> \o SplitWords(SubSeq(t, n, Len(t)))

\* a variant that appends the path without looking for it in the list
ConflictLine_NoDedupe(conflicts, raw) ==
    LET line  == Strip(raw)
        parts == SplitWords(line)
    IN  IF (StartsWith(line, "(alpha)") \/ StartsWith(line, "(beta)"))
           /\ Len(parts) >= 2
        THEN Append(conflicts, [path |-> parts[2]])
        ELSE conflicts

\* one iteration of the while loop over the lines
ConflictLine(conflicts, raw) ==
    LET line  == Strip(raw)
        parts == SplitWords(line)
    IN  IF (StartsWith(line, "(alpha)") \/ StartsWith(line, "(beta)"))
           /\ Len(parts) >= 2
           /\ ~\E i \in 1..Len(conflicts) : conflicts[i].path = parts[2]
        THEN Append(conflicts, [path |-> parts[2]])
        ELSE conflicts

RECURSIVE ConflictLoop(_, _)
ConflictLoop(conflicts, lines) ==
    IF lines = <<>> THEN conflicts
    ELSE ConflictLoop(ConflictLine(conflicts, Head(lines)), Tail(lines))

\* get_session_conflicts(session_name): the response, given how run_command
\* ended and what the engine printed; any exception becomes a 500
GetSessionConflicts(ran, text) ==
    IF ran # "ok" THEN [status |-> "500", conflicts |-> <<>>, count |-> 0]
    ELSE LET conflicts == ConflictLoop(<<>>, SplitLines(text))
         IN  [status |-> "200", conflicts |-> conflicts,
              count |-> Len(conflicts)]

-----------------------------------------------------------------------------
(* The external sync engine, as the handlers see it: the sessions it holds, *)
(* what "sync list" prints and what each subcommand does                    *)

\* the URL: line of an endpoint; the engine prints none for an endpoint
\* whose URL it does not show (url = <<>>)
UrlLine(url) ==
    IF url = <<>> THEN <<>> ELSE << <<"\t", "URL:", " ">> \o url >>

\* the stanza "sync list" prints for one session
Stanza(s) ==
    JoinLines(<< <<"--------">>,
                 <<"Name:", " ">> \o s.name,
                 <<"Identifier:", " ", "sync_id">>,
                 <<"Status:", " ",
                   IF s.paused THEN "Paused" ELSE "Watching for changes">>,
                 <<"Alpha:">> >>
              \o UrlLine(s.alpha)
              \o << <<"\t", "Connected:", " ", "Yes">>,
                    <<"Beta:">> >>
              \o UrlLine(s.beta)
              \o << <<"\t", "Connected:", " ", "Yes">> >>)

\* the text "sync list" prints for the sessions ss
ListOutput(ss) ==
    JoinLines([i \in 1..Len(ss) |-> Stanza(ss[i])])

\* the sessions of ss that the session specification n names
Matching(ss, n) == {i \in 1..Len(ss) : ss[i].name = n}

\* the engine can exit 0 on cmd: list always, create while it has room, an
\* action only on a session specification that matches
EngineAccepts(ss, cmd) ==
    \/ cmd[2] = <<"list">>
    \/ cmd[2] = <<"create">> /\ Len(ss) < MaxSessions
    \/ Matching(ss, cmd[3]) # {}

\* the sessions after the engine has carried out cmd
EngineAfter(ss, cmd) ==
    LET verb == cmd[2] IN
    CASE verb = <<"create">> ->
            Append(ss, [name |-> Tail(cmd[3]), alpha |-> cmd[7],
                        beta |-> cmd[8], paused |-> FALSE])
      [] verb = <<"terminate">> ->
            SelectSeq(ss, LAMBDA s : s.name # cmd[3])
      [] verb = <<"pause">> ->
            [i \in 1..Len(ss) |->
                IF ss[i].name = cmd[3] THEN [ss[i] EXCEPT !.paused = TRUE]
                ELSE ss[i]]
      [] verb = <<"resume">> ->
            [i \in 1..Len(ss) |->
                IF ss[i].name = cmd[3] THEN [ss[i] EXCEPT !.paused = FALSE]
                ELSE ss[i]]
      [] OTHER -> ss

\* how the engine process of one run_command call can end, and the sessions
\* afterwards: a non-zero exit changes nothing; a process that outlives the
\* timeout may or may not have done its work
EngineRuns(ss, cmd) ==
    {[proc |-> "failed", engine |-> ss], [proc |-> "timeout", engine |-> ss]}
    \cup IF EngineAccepts(ss, cmd)
         THEN {[proc |-> "ok", engine |-> EngineAfter(ss, cmd)],
               [proc |-> "timeout", engine |-> EngineAfter(ss, cmd)]}
         ELSE {}

-----------------------------------------------------------------------------
(* The request handlers: perform_session_action and resolve_conflicts *)

\* one run_command call of a handler: its outcome and the engine afterwards;
\* without a binary nothing is spawned
Runs(bin, ss, cmd) ==
    IF ~bin THEN {[out |-> RunCommand(bin, "ok"), engine |-> ss]}
    ELSE {[out |-> RunCommand(bin, x.proc), engine |-> x.engine] :
              x \in EngineRuns(ss, cmd)}

\* a request slot with no request in it
NoRequest ==
    [op |-> "none", name |-> <<>>, arg |-> "", pc |-> "idle",
     session |-> EmptyDict, listed |-> EmptyDict, trace |-> <<>>,
     status |-> "none", detail |-> "none", event |-> EmptyDict,
     config |-> EmptyDict]

\* the request has raised: every exception leaves the handler as a 500
Raise(req, detail) ==
    [req EXCEPT !.pc = "done", !.status = "500", !.detail = detail]

\* the RuntimeError or HTTPException run_command raised
RunError(out) ==
    CASE out = "failed" -> "command_failed"
      [] out = "timeout" -> "command_timed_out"
      [] OTHER -> "mutagen_not_installed"

\* the request has made the run_command call cmd, which ended as out
Ran(req, cmd, out) ==
    [req EXCEPT !.trace = Append(@, [cmd |-> cmd, out |-> out])]

\* valid_actions
ValidActions == {"resume", "pause", "flush", "terminate", "reset"}

\* action in valid_actions
ValidAction(action) == action \in ValidActions

\* a variant that lets every winner through
ValidWinner_Any(winner) == TRUE

\* winner in ['alpha', 'beta']
ValidWinner(winner) == winner \in {"alpha", "beta"}

\* resolution.get('winner', 'alpha')
WinnerOf(resolution) ==
    IF Has(resolution, "winner") THEN resolution.winner ELSE "alpha"

\* a variant whose lookup finds no session
FirstNamed_None(records, n) == 0

\* next((s for s in sessions if s["name"] == session_name), None): the index
\* of the first record with that name, 0 for None
FirstNamed(records, n) ==
    LET hits == {i \in 1..Len(records) : records[i].name = n}
    IN  IF hits = {} THEN 0 ELSE CHOOSE i \in hits : \A j \in hits : i <= j

\* a variant that recreates alpha -> beta whoever wins
ResolveEndpoints_AlphaFirst(winner, alpha_url, beta_url) == <<alpha_url, beta_url>>

\* the source and the destination of the recreated session
ResolveEndpoints(winner, alpha_url, beta_url) ==
    IF winner = "alpha" THEN <<alpha_url, beta_url>> ELSE <<beta_url, alpha_url>>

\* the arguments of the "sync create" of resolve_conflicts
ResolveCreateArgs(session_name, winner, alpha_url, beta_url) ==
    << <<"sync">>, <<"create">>,
       <<"--name=">> \o session_name,
       <<"--mode=", "one-way-replica">>,
       <<"--default-file-mode=0644">>,
       <<"--default-directory-mode=0755">> >>
    \o ResolveEndpoints(winner, alpha_url, beta_url)

\* a variant that forwards every action as a terminate
ActionArgs_Terminate(session_name, action) ==
    << <<"sync">>, <<"terminate">>, session_name >>

ActionArgs(session_name, action) == << <<"sync">>, <<action>>, session_name >>

ListArgs == << <<"sync">>, <<"list">> >>

\* the session names, the actions and the resolutions of the requests
OrchNames == { <<"demo">>, <<"web">> }

ActionInputs == ValidActions \cup {"fly"}

Resolutions == {EmptyDict} \cup {[winner |-> w] : w \in {"alpha", "beta", "gamma"}}

\* the slots concurrent requests run in
Slots == {1, 2}

\* perform_session_action: the request arrives and perform_action validates
\* the action
StartAction(r) ==
    /\ reqs[r].pc = "idle"
    /\ \E n \in OrchNames, a \in ActionInputs :
           LET req == [NoRequest EXCEPT !.op = "action", !.name = n, !.arg = a]
           IN  reqs' = [reqs EXCEPT ![r] =
                           IF ValidAction(a) THEN [req EXCEPT !.pc = "run"]
                           ELSE Raise(req, "invalid_action")]
    /\ UNCHANGED <<engine, parseVars, sanVars, createVars, conflictVars,
                 listVars, runVars, castVars>>

\* perform_action runs "sync <action> <name>"; on success the handler
\* broadcasts the session_action event and answers
RunAction(r) ==
    /\ reqs[r].pc = "run"
    /\ LET req == reqs[r]
           cmd == ActionArgs(req.name, req.arg)
       IN  \E x \in Runs(mutagen_bin, engine, cmd) :
               /\ engine' = x.engine
               /\ reqs' = [reqs EXCEPT ![r] =
                      IF x.out = "ok"
                      THEN [Ran(req, cmd, x.out) EXCEPT
                               !.pc = "done", !.status = "200",
                               !.event = [type |-> "session_action",
                                          session |-> req.name,
                                          action |-> req.arg]]
                      ELSE Raise(Ran(req, cmd, x.out), RunError(x.out))]
    /\ UNCHANGED <<parseVars, sanVars, createVars, conflictVars,
                 listVars, runVars, castVars>>

\* resolve_conflicts: the request arrives and the winner is validated
StartResolve(r) ==
    /\ reqs[r].pc = "idle"
    /\ \E n \in OrchNames, resolution \in Resolutions :
           LET req == [NoRequest EXCEPT !.op = "resolve", !.name = n,
                                        !.arg = WinnerOf(resolution)]
           IN  reqs' = [reqs EXCEPT ![r] =
                           IF ValidWinner(req.arg) THEN [req EXCEPT !.pc = "list"]
                           ELSE Raise(req, "invalid_winner")]
    /\ UNCHANGED <<engine, parseVars, sanVars, createVars, conflictVars,
                 listVars, runVars, castVars>>

\* resolve_conflicts: list_sessions() and the lookup of the session
ResolveList(r) ==
    /\ reqs[r].pc = "list"
    /\ LET req     == reqs[r]
           records == ParseSessions(ListOutput(engine))
           i       == FirstNamed(records, req.name)
           k       == FirstNamed(engine, req.name)
       IN  \E x \in Runs(mutagen_bin, engine, ListArgs) :
               /\ engine' = x.engine
               /\ reqs' = [reqs EXCEPT ![r] =
                      IF x.out # "ok"
                      THEN Raise(Ran(req, ListArgs, x.out), RunError(x.out))
                      ELSE IF i = 0
                      THEN Raise(Ran(req, ListArgs, x.out), "session_not_found")
                      ELSE [Ran(req, ListArgs, x.out) EXCEPT
                               !.pc = "terminate",
                               !.session = records[i],
                               !.listed = IF k = 0 THEN EmptyDict ELSE engine[k]]]
    /\ UNCHANGED <<parseVars, sanVars, createVars, conflictVars,
                 listVars, runVars, castVars>>

\* resolve_conflicts: "sync terminate <name>", then the two URLs are read
\* from the record
ResolveTerminate(r) ==
    /\ reqs[r].pc = "terminate"
    /\ LET req == reqs[r]
           cmd == ActionArgs(req.name, "terminate")
       IN  \E x \in Runs(mutagen_bin, engine, cmd) :
               /\ engine' = x.engine
               /\ reqs' = [reqs EXCEPT ![r] =
                      IF x.out # "ok"
                      THEN Raise(Ran(req, cmd, x.out), RunError(x.out))
                      ELSE IF ~Has(req.session.alpha, "url")
                              \/ ~Has(req.session.beta, "url")
                      THEN Raise(Ran(req, cmd, x.out), "key_error")
                      ELSE [Ran(req, cmd, x.out) EXCEPT !.pc = "create"]]
    /\ UNCHANGED <<parseVars, sanVars, createVars, conflictVars,
                 listVars, runVars, castVars>>

\* resolve_conflicts: "sync create" in one-way-replica mode, then the answer
ResolveCreate(r) ==
    /\ reqs[r].pc = "create"
    /\ LET req == reqs[r]
           cmd == ResolveCreateArgs(req.name, req.arg,
                                    req.session.alpha.url, req.session.beta.url)
       IN  \E x \in Runs(mutagen_bin, engine, cmd) :
               /\ engine' = x.engine
               /\ reqs' = [reqs EXCEPT ![r] =
                      IF x.out # "ok"
                      THEN Raise(Ran(req, cmd, x.out), RunError(x.out))
                      ELSE [Ran(req, cmd, x.out) EXCEPT
                               !.pc = "done", !.status = "200"]]
    /\ UNCHANGED <<parseVars, sanVars, createVars, conflictVars,
                 listVars, runVars, castVars>>

\* the response has been sent: the slot is free for the next request
Retire(r) ==
    /\ reqs[r].pc = "done"
    /\ reqs' = [reqs EXCEPT ![r] = NoRequest]
    /\ UNCHANGED <<engine, parseVars, sanVars, createVars, conflictVars,
                 listVars, runVars, castVars>>

-----------------------------------------------------------------------------
(* quick_connect *)

\* the saved connections quick_connect builds its descriptor from
SavedConfigs ==
    { cfg \in Configs : /\ cfg.host = "h1"
                        /\ cfg.port = 22
                        /\ cfg.sync_mode = "two-way-safe"
                        /\ cfg.ssh_key_path \in {"", "/k1"}
                        /\ cfg.initial_sync_direction = "" }

\* the environments of the create_session call of quick_connect
QuickEnvsFor(cfg) == Envs(cfg, {"ok"}, {"added"}, {"ok", "failed", "timeout"})

\* a variant that looks for the connection name as it was saved
QuickName_Raw(cfg) == cfg.name

\* session_name = mutagen_mgr.sanitize_name(config.name)
QuickName(cfg) == SanitizeName(cfg.name)

\* existing = [s for s in sessions if s["name"] == session_name]
Existing(records, session_name) ==
    {i \in 1..Len(records) : records[i].name = session_name}

\* quick_connect has no except clause: the HTTPException of run_command
\* leaves it as 503, every other exception as 500
Propagate(req, out, detail) ==
    [req EXCEPT !.pc = "done",
                !.status = IF out = "binary_not_found" THEN "503" ELSE "500",
                !.detail = detail]

\* the request arrives: the descriptor is built from the saved connection,
\* list_sessions() runs and the handler looks for the sanitized name
QuickList(r) ==
    /\ reqs[r].pc = "idle"
    /\ \E cfg \in SavedConfigs, x \in Runs(mutagen_bin, engine, ListArgs) :
           LET req == [NoRequest EXCEPT !.op = "connect",
                                        !.name = QuickName(cfg),
                                        !.config = cfg]
               records == ParseSessions(ListOutput(engine))
           IN  /\ engine' = x.engine
               /\ reqs' = [reqs EXCEPT ![r] =
                      IF x.out # "ok"
                      THEN Propagate(Ran(req, ListArgs, x.out), x.out,
                                     RunError(x.out))
                      ELSE [Ran(req, ListArgs, x.out) EXCEPT
                               !.listed = {engine[i].name : i \in 1..Len(engine)},
                               !.pc = IF Existing(records, req.name) # {}
                                      THEN "resume" ELSE "create_session"]]
    /\ UNCHANGED <<parseVars, sanVars, createVars, conflictVars,
                   listVars, runVars, castVars>>

\* perform_action(session_name, "resume"), then the answer
QuickResume(r) ==
    /\ reqs[r].pc = "resume"
    /\ LET req == reqs[r]
           cmd == ActionArgs(req.name, "resume")
       IN  \E x \in Runs(mutagen_bin, engine, cmd) :
               /\ engine' = x.engine
               /\ reqs' = [reqs EXCEPT ![r] =
                      IF ~ValidAction("resume")
                      THEN Propagate(req, "invalid", "invalid_action")
                      ELSE IF x.out # "ok"
                      THEN Propagate(Ran(req, cmd, x.out), x.out, RunError(x.out))
                      ELSE [Ran(req, cmd, x.out) EXCEPT
                               !.pc = "done", !.status = "200",
                               !.arg = "resumed"]]
    /\ UNCHANGED <<parseVars, sanVars, createVars, conflictVars,
                   listVars, runVars, castVars>>

\* create_session(config), then the answer
QuickCreate(r) ==
    /\ reqs[r].pc = "create_session"
    /\ LET req == reqs[r] IN
       \E env \in QuickEnvsFor(req.config) :
           LET c == CreateSession(req.config, env, mutagen_bin, ssh_config) IN
           /\ ssh_config' = c.ssh_config
           /\ IF c.args = <<>>
              THEN /\ engine' = engine
                   /\ reqs' = [reqs EXCEPT ![r] =
                                  Propagate(req, c.result, c.result)]
              ELSE \E x \in Runs(mutagen_bin, engine, c.args) :
                       /\ x.out = c.result
                       /\ engine' = x.engine
                       /\ reqs' = [reqs EXCEPT ![r] =
                              IF x.out # "ok"
                              THEN Propagate(Ran(req, c.args, x.out), x.out,
                                             RunError(x.out))
                              ELSE [Ran(req, c.args, x.out) EXCEPT
                                       !.pc = "done", !.status = "200",
                                       !.arg = "created"]]
    /\ UNCHANGED <<mutagen_bin, call, createLog, nCreates, parseVars, sanVars,
                   conflictVars, listVars, runVars, castVars>>

-----------------------------------------------------------------------------
(* The create_session endpoint *)

\* the descriptors the endpoint is called with
EndpointConfigs ==
    { cfg \in Configs : /\ cfg.host = "h1"
                        /\ cfg.port = 22
                        /\ cfg.sync_mode = "two-way-safe"
                        /\ cfg.ssh_key_path \in {"", "/k1"} }

\* the outcomes of the sub-steps of its mutagen_mgr.create_session call
EndpointEnvsFor(cfg) ==
    Envs(cfg, {"ok", "failed"}, {"added"}, {"ok", "failed", "timeout"})

\* a variant that broadcasts in every case
Broadcasts_Always(result) == TRUE

\* manager.broadcast is the statement after "result = await
\* mutagen_mgr.create_session(config)" in the try block: it is reached when
\* that call returned
Broadcasts(result) == result = "ok"

\* the whole endpoint: the connection is saved, mutagen_mgr.create_session
\* runs, the event is broadcast and the answer is sent; every exception
\* leaves it as a 500
CreateSessionEndpoint(r) ==
    /\ reqs[r].pc = "idle"
    /\ \E cfg \in EndpointConfigs, saved \in BOOLEAN :
         \E env \in EndpointEnvsFor(cfg) :
           LET req == [NoRequest EXCEPT !.op = "create", !.name = cfg.name,
                                        !.config = cfg]
               c   == CreateSession(cfg, env, mutagen_bin, ssh_config)
               created == [type |-> "session_created", name |-> cfg.name]
           IN  IF ~saved
               THEN /\ reqs' = [reqs EXCEPT ![r] = Raise(req, "db_error")]
                    /\ UNCHANGED <<engine, ssh_config>>
               ELSE /\ ssh_config' = c.ssh_config
                    /\ IF c.args = <<>>
                       THEN /\ engine' = engine
                            /\ reqs' = [reqs EXCEPT ![r] =
                                   [Raise(req, c.result) EXCEPT
                                       !.event = IF Broadcasts(c.result)
                                                 THEN created ELSE EmptyDict]]
                       ELSE \E x \in Runs(mutagen_bin, engine, c.args) :
                                /\ x.out = c.result
                                /\ engine' = x.engine
                                /\ reqs' = [reqs EXCEPT ![r] =
                                       [(IF x.out = "ok"
                                         THEN [Ran(req, c.args, x.out) EXCEPT
                                                  !.pc = "done", !.status = "200"]
                                         ELSE Raise(Ran(req, c.args, x.out),
                                                    RunError(x.out)))
                                        EXCEPT !.event = IF Broadcasts(x.out)
                                                         THEN created
                                                         ELSE EmptyDict]]
    /\ UNCHANGED <<mutagen_bin, call, createLog, nCreates, parseVars, sanVars,
                   conflictVars, listVars, runVars, castVars>>

-----------------------------------------------------------------------------
(* The list_sessions endpoint *)

\* str.lower(), on the atoms of the texts the endpoint looks at
LowerAtom(a) ==
    CASE a = "Running" -> "running"
      [] a = "Stopped" -> "stopped"
      [] a = "Status:" -> "status:"
      [] a = "Command" -> "command"
      [] a = "Timed" -> "timed"
      [] OTHER -> a

Lower(s) == [i \in 1..Len(s) |-> LowerAtom(s[i])]

\* a variant that reports stderr only
FailedMessage_StderrOnly(stderr, stdout) ==
    <<"Command", " ", "failed:", " ">> \o stderr

\* RuntimeError(f"Command failed: {error_msg}"), error_msg the text of stderr,
\* or of stdout when stderr is empty
FailedMessage(stderr, stdout) ==
    <<"Command", " ", "failed:", " ">>
    \o (IF stderr # <<>> THEN stderr ELSE stdout)

\* RuntimeError(f"Command timed out after {timeout} seconds")
TimeoutMessage ==
    <<"Command", " ", "timed", " ", "out", " ", "after", " ", "60", " ",
      "seconds">>

\* what the engine's daemon prints on "daemon list"
DaemonTexts(d) ==
    IF d = "running" THEN { <<"Status:", " ", "Running">>, <<"running">> }
    ELSE { <<"Status:", " ", "Stopped">>, <<>> }

\* the daemon after a "daemon start" process that ended as proc
DaemonAfterStart(d, proc) ==
    CASE proc = "ok" -> {"running"}
      [] proc = "timeout" -> {d, "running"}
      [] OTHER -> {d}

\* what an engine process that exits non-zero prints on stderr
Stderrs == { <<>>, <<"boom">>, <<"dial", " ", "Timed", " ", "out">> }

\* what it prints on stdout then
FailedStdout == <<"usage">>

\* one run_command call of the endpoint: how it ended, the stdout it
\* returned (texts: what the engine prints on exit 0) or the message of the
\* error it raised
TextRuns(bin, texts) ==
    IF ~bin
    THEN {[out |-> RunCommand(bin, "ok"), text |-> <<>>, message |-> <<>>]}
    ELSE {[out |-> RunCommand(bin, "ok"), text |-> t, message |-> <<>>] :
              t \in texts}
         \cup {[out |-> RunCommand(bin, "failed"), text |-> <<>>,
                message |-> FailedMessage(e, FailedStdout)] : e \in Stderrs}
         \cup {[out |-> RunCommand(bin, "timeout"), text |-> <<>>,
                message |-> TimeoutMessage]}

\* MutagenManager.daemon_status
DaemonStatus(out, text) ==
    IF out = "ok"
    THEN IF Contains(Lower(text), "running") THEN "running" ELSE "stopped"
    ELSE "stopped"

\* the endpoint's test before start_daemon
StartsDaemon(daemon_status) == daemon_status # "Running"

\* a variant that never takes an error for a timeout
SwallowsError_Never(message) == FALSE

\* "timed out" in str(e).lower()
SwallowsError(message) == IsSubText(<<"timed", " ", "out">>, Lower(message))

DaemonListArgs == << <<"daemon">>, <<"list">> >>

DaemonStartArgs == << <<"daemon">>, <<"start">> >>

NoListRequest ==
    [pc |-> "idle", daemon_status |-> "none", trace |-> <<>>,
     status |-> "none", body |-> <<>>, detail |-> <<>>]

\* the endpoint after run_command raised: an HTTPException (no binary) and
\* a RuntimeError that is not taken for a timeout leave it; the others give
\* the empty list
ListRaised(req, x) ==
    IF x.out = "binary_not_found"
    THEN [req EXCEPT !.pc = "done", !.status = "503"]
    ELSE IF SwallowsError(x.message)
    THEN [req EXCEPT !.pc = "done", !.status = "200", !.body = <<>>]
    ELSE [req EXCEPT !.pc = "done", !.status = "500", !.detail = x.message]

\* the call cmd, which ended as x, is on the request's record
ListRan(req, cmd, x) ==
    [req EXCEPT !.trace = Append(@, [cmd |-> cmd, out |-> x.out,
                                     message |-> x.message])]

\* the request arrives; daemon_status() runs "daemon list" and the endpoint
\* decides whether to start the daemon
ListDaemonStatus ==
    /\ listReq.pc = "idle"
    /\ \E x \in TextRuns(mutagen_bin, DaemonTexts(daemon)) :
           LET st == DaemonStatus(x.out, x.text)
           IN  listReq' = [ListRan(listReq, DaemonListArgs, x) EXCEPT
                              !.daemon_status = st,
                              !.pc = IF StartsDaemon(st) THEN "start"
                                     ELSE "list"]
    /\ UNCHANGED <<daemon, parseVars, sanVars, createVars, conflictVars,
                   orchVars, runVars, castVars>>

\* start_daemon() runs "daemon start", then the endpoint sleeps a second
ListStartDaemon ==
    /\ listReq.pc = "start"
    /\ \E x \in TextRuns(mutagen_bin, {<<>>}) :
           /\ daemon' \in IF x.out = "binary_not_found" THEN {daemon}
                          ELSE DaemonAfterStart(daemon, x.out)
           /\ listReq' = IF x.out = "ok"
                         THEN [ListRan(listReq, DaemonStartArgs, x) EXCEPT
                                  !.pc = "list"]
                         ELSE ListRaised(ListRan(listReq, DaemonStartArgs, x), x)
    /\ UNCHANGED <<parseVars, sanVars, createVars, conflictVars, orchVars,
                   runVars, castVars>>

\* mutagen_mgr.list_sessions(): "sync list" and the parser, then the answer
ListSessions ==
    /\ listReq.pc = "list"
    /\ \E x \in TextRuns(mutagen_bin, {ListOutput(engine)}) :
           listReq' = IF x.out = "ok"
                      THEN [ListRan(listReq, ListArgs, x) EXCEPT
                               !.pc = "done", !.status = "200",
                               !.body = ParseSessions(x.text)]
                      ELSE ListRaised(ListRan(listReq, ListArgs, x), x)
    /\ UNCHANGED <<daemon, parseVars, sanVars, createVars, conflictVars,
                   orchVars, runVars, castVars>>

\* the response has been sent
ListRetire ==
    /\ listReq.pc = "done"
    /\ listReq' = NoListRequest
    /\ UNCHANGED <<daemon, parseVars, sanVars, createVars, conflictVars,
                   orchVars, runVars, castVars>>

-----------------------------------------------------------------------------
(* MutagenManager.run_command, step by step *)

\* an engine process, as run_command sees it: whether communicate() returns
\* within the timeout, its exit code and what it printed
Procs ==
    [finishes : BOOLEAN, returncode : {0, 1, 2},
     stdout : { <<>>, <<"out">>, FailedStdout }, stderr : Stderrs]

\* how the process ends for run_command
ProcEnd(p) ==
    IF ~p.finishes THEN "timeout"
    ELSE IF p.returncode # 0 THEN "failed"
    ELSE "ok"

\* the command lines run_command is called with
RunArgs == {ListArgs, DaemonListArgs, DaemonStartArgs}

NoProc == [finishes |-> FALSE, returncode |-> 0, stdout |-> <<>>, stderr |-> <<>>]

NoRun ==
    [pc |-> "idle", args |-> <<>>, spawned |-> <<>>, proc |-> NoProc,
     out |-> "none", value |-> <<>>, message |-> <<>>]

\* run_command(*args) is called: without a binary it raises at once
RunCall ==
    /\ run.pc = "idle"
    /\ \E args \in RunArgs :
           run' = IF ~mutagen_bin
                  THEN [run EXCEPT !.args = args, !.pc = "done",
                                   !.out = RunCommand(mutagen_bin, "ok")]
                  ELSE [run EXCEPT !.args = args, !.pc = "spawn"]
    /\ UNCHANGED <<parseVars, sanVars, createVars, conflictVars, orchVars,
                   listVars, castVars>>

\* asyncio.create_subprocess_exec(*cmd, ...)
RunSpawn ==
    /\ run.pc = "spawn"
    /\ \E p \in Procs :
           run' = [run EXCEPT !.pc = "wait", !.proc = p,
                              !.spawned = Append(@, run.args)]
    /\ UNCHANGED <<parseVars, sanVars, createVars, conflictVars, orchVars,
                   listVars, castVars>>

\* asyncio.wait_for(proc.communicate(), timeout), the exit code test and the
\* return
RunWait ==
    /\ run.pc = "wait"
    /\ LET p   == run.proc
           out == RunCommand(mutagen_bin, ProcEnd(p))
       IN  run' = [run EXCEPT
                      !.pc = "done",
                      !.out = out,
                      !.value = IF out = "ok" THEN p.stdout ELSE <<>>,
                      !.message =
                          CASE out = "failed" -> FailedMessage(p.stderr, p.stdout)
                            [] out = "timeout" -> TimeoutMessage
                            [] OTHER -> <<>>]
    /\ UNCHANGED <<parseVars, sanVars, createVars, conflictVars, orchVars,
                   listVars, castVars>>

\* the call has returned or raised
RunReturn ==
    /\ run.pc = "done"
    /\ run' = NoRun
    /\ UNCHANGED <<parseVars, sanVars, createVars, conflictVars, orchVars,
                   listVars, castVars>>

-----------------------------------------------------------------------------
(* ConnectionManager *)

\* the websockets that connect to /ws
Subscribers == {"w1", "w2", "w3"}

\* the events the endpoints broadcast after their operation succeeded
Events == {"session_created", "session_action"}

\* the elements of a list
Range(q) == {q[j] : j \in 1..Len(q)}

\* list.remove(w): the list without its first w
Remove(q, w) ==
    LET k == CHOOSE j \in 1..Len(q) : q[j] = w /\ \A h \in 1..(j - 1) : q[h] # w
    IN  SubSeq(q, 1, k - 1) \o SubSeq(q, k + 1, Len(q))

NoCast ==
    [pc |-> "idle", message |-> "none", i |-> 1, connection |-> "none",
     sent |-> <<>>, failed |-> {}, stayed |-> {}, status |-> "none"]

\* websocket_endpoint: manager.connect(websocket).  It runs while no
\* broadcast is in flight or while the broadcast is suspended in send_json.
Connect(w) ==
    /\ cast.pc \in {"idle", "sending"}
    /\ w \notin Range(active_connections)
    /\ active_connections' = Append(active_connections, w)
    /\ UNCHANGED <<cast, parseVars, sanVars, createVars, conflictVars,
                   orchVars, listVars, runVars>>

\* websocket_endpoint: WebSocketDisconnect, manager.disconnect(websocket)
Disconnect(w) ==
    /\ cast.pc \in {"idle", "sending"}
    /\ w \in Range(active_connections)
    /\ active_connections' = Remove(active_connections, w)
    /\ cast' = [cast EXCEPT !.stayed = @ \ {w}]
    /\ UNCHANGED <<parseVars, sanVars, createVars, conflictVars, orchVars,
                   listVars, runVars>>

\* the list iterator of "for connection in self.active_connections": the
\* next element of the list as it is now, or the end of the loop, after
\* which broadcast returns and the endpoint returns its success payload
CastNext(c) ==
    IF c.i > Len(active_connections)
    THEN [c EXCEPT !.pc = "done", !.status = "200", !.connection = "none"]
    ELSE [c EXCEPT !.pc = "sending", !.connection = active_connections[c.i],
                   !.i = c.i + 1]

\* create_session or perform_session_action succeeded and calls
\* manager.broadcast(message): the loop starts
Broadcast ==
    /\ cast.pc = "idle"
    /\ \E e \in Events :
           cast' = CastNext([cast EXCEPT !.message = e, !.i = 1,
                                         !.stayed = Range(active_connections)])
    /\ UNCHANGED <<active_connections, parseVars, sanVars, createVars,
                   conflictVars, orchVars, listVars, runVars>>

\* await connection.send_json(message) ends, by returning or by raising
\* (caught by the bare except), and the loop goes on
SendJson ==
    /\ cast.pc = "sending"
    /\ \E ok \in BOOLEAN :
           cast' = CastNext([cast EXCEPT
                                !.sent = Append(@, cast.connection),
                                !.failed = IF ok THEN @
                                           ELSE @ \cup {cast.connection}])
    /\ UNCHANGED <<active_connections, parseVars, sanVars, createVars,
                   conflictVars, orchVars, listVars, runVars>>

\* the endpoint has answered
CastRetire ==
    /\ cast.pc = "done"
    /\ cast' = NoCast
    /\ UNCHANGED <<active_connections, parseVars, sanVars, createVars,
                   conflictVars, orchVars, listVars, runVars>>

-----------------------------------------------------------------------------
(* The state of a part of the program that a specification leaves alone *)

IdleParse ==
    /\ output = <<>>
    /\ sessions = <<>>
    /\ parsePc = "idle"

IdleSanitize ==
    /\ name = <<>>
    /\ sanitized = <<>>
    /\ resanitized = <<>>
    /\ sanPc = "idle"

NoCall == [config |-> EmptyDict, steps |-> <<>>, args |-> <<>>, result |-> "none"]

IdleCreate ==
    /\ mutagen_bin = TRUE
    /\ ssh_config = <<>>
    /\ call = NoCall
    /\ createLog = {}
    /\ nCreates = 0

NoResponse == [status |-> "none", conflicts |-> <<>>, count |-> 0]

IdleConflicts ==
    /\ verbose = <<>>
    /\ verboseProc = "ok"
    /\ conflictsResp = NoResponse
    /\ conflictsPc = "idle"

IdleList ==
    /\ daemon = "stopped"
    /\ listReq = NoListRequest

IdleRun == run = NoRun

IdleCast ==
    /\ active_connections = <<>>
    /\ cast = NoCast

IdleOrch ==
    /\ engine = <<>>
    /\ reqs = [r \in Slots |-> NoRequest]

-----------------------------------------------------------------------------
(* Specification of the parser: any status text, then one call *)

\* the lines the status texts are built from
StatusLines ==
    { <<>>,
      <<"Name:", " ", "demo">>,
      <<"Name:", " ", "web">>,
      <<"Identifier:", " ", "abc123">>,
      <<"Status:", " ", "Watching">>,
      <<"Alpha:">>,
      <<"Beta:">>,
      <<"\t", "URL:", " ", "/local">>,
      <<"\t", "URL:", " ", "u@h:/remote">>,
      <<"\t", "Connected:", " ", "Yes">>,
      <<"\t", "Connected:", " ", "No">>,
      <<"Yes", " ", "Connected:", " ", "No">> }

StatusTexts ==
    { JoinLines(ls) : ls \in UNION { [1..n -> StatusLines] : n \in 1..MaxLines } }

InitParse ==
    /\ output \in StatusTexts
    /\ sessions = <<>>
    /\ parsePc = "call"
    /\ IdleSanitize /\ IdleCreate /\ IdleConflicts /\ IdleOrch
    /\ IdleList /\ IdleRun /\ IdleCast

CallParseSessions ==
    /\ parsePc = "call"
    /\ sessions' = ParseSessions(output)
    /\ parsePc' = "done"
    /\ UNCHANGED <<output, sanVars, createVars, conflictVars, orchVars,
                 listVars, runVars, castVars>>

NextParse == CallParseSessions

SpecParse == InitParse /\ [][NextParse]_vars

-----------------------------------------------------------------------------
(* Claims about the parser *)

Lines == SplitLines(output)

IsNameLine(l) == StartsWith(Strip(l), "Name:")

\* the Name: lines of the text, in input order
NameLines == SelectSeq(Lines, IsNameLine)

\* the stanza (1, 2, ...) line i belongs to; 0 before the first Name: line
StanzaOf(i) == Cardinality({j \in 1..i : IsNameLine(Lines[j])})

MarkerOf(l) ==
    IF StartsWith(Strip(l), "Alpha:") THEN "alpha"
    ELSE IF StartsWith(Strip(l), "Beta:") THEN "beta"
    ELSE "none"

\* the endpoint named by the nearest Alpha:/Beta: marker that precedes line i
\* within the stanza of line i; "none" when the stanza has no marker before i
NearestMarker(i) ==
    LET ms == {j \in 1..(i - 1) :
                   StanzaOf(j) = StanzaOf(i) /\ MarkerOf(Lines[j]) # "none"}
    IN  IF StanzaOf(i) = 0 \/ ms = {} THEN "none"
        ELSE MarkerOf(Lines[CHOOSE j \in ms : \A k \in ms : k <= j])

\* line i is a URL: or Connected: line (none of the five leading keywords)
IsFieldLine(i, key) ==
    LET l == Strip(Lines[i]) IN
    /\ \A k \in {"Name:", "Identifier:", "Status:", "Alpha:", "Beta:"} :
           ~StartsWith(l, k)
    /\ Contains(l, key)

\* the text without its line i
WithoutLine(i) ==
    JoinLines(SubSeq(Lines, 1, i - 1) \o SubSeq(Lines, i + 1, Len(Lines)))

\* C1: _parse_sessions returns exactly one record per line that, trimmed,
\* starts with "Name:", in input order (record k carries the name of the k-th
\* such line), and the lines before the first "Name:" line produce no record:
\* the result is the same without them.
C1_OneRecordPerNameLine ==
    parsePc = "done" =>
        /\ Len(sessions) = Len(NameLines)
        /\ \A k \in 1..Len(NameLines) :
               sessions[k].name = Strip(AfterColon(Strip(NameLines[k])))
        /\ \A i \in 1..Len(Lines) :
               StanzaOf(i) = 0 => ParseSessions(WithoutLine(i)) = sessions

\* C1 witness: two stanzas parsed, with a non-empty line before the first
C1_Witness ==
    /\ parsePc = "done"
    /\ Len(sessions) = 2
    /\ sessions[1].name # sessions[2].name
    /\ ~IsNameLine(Lines[1]) /\ Strip(Lines[1]) # <<>>

\* C2: a URL:/Connected: line is attached only to the endpoint named by the
\* nearest preceding Alpha:/Beta: marker of its own stanza, and in every
\* stanza such a line that precedes every marker of the stanza is dropped:
\* the result is the same without it.
C2_FieldsFollowStanzaMarker ==
    parsePc = "done" =>
        /\ \A k \in 1..Len(sessions) : \A e \in {"alpha", "beta"} :
               /\ Has(sessions[k][e], "url") =>
                      \E i \in 1..Len(Lines) :
                          /\ StanzaOf(i) = k /\ IsFieldLine(i, "URL:")
                          /\ NearestMarker(i) = e
               /\ Has(sessions[k][e], "connected") =>
                      \E i \in 1..Len(Lines) :
                          /\ StanzaOf(i) = k /\ IsFieldLine(i, "Connected:")
                          /\ NearestMarker(i) = e
        /\ \A i \in 1..Len(Lines) :
               ( /\ StanzaOf(i) > 0
                 /\ IsFieldLine(i, "URL:") \/ IsFieldLine(i, "Connected:")
                 /\ NearestMarker(i) = "none" )
               => ParseSessions(WithoutLine(i)) = sessions

\* the value of a Connected: line contains "Yes"
ValueHasYes(i) == Contains(Strip(AfterColon(Strip(Lines[i]))), "Yes")

\* C3: for every endpoint of every record, connected is true iff the stanza
\* has a Connected: line for that endpoint whose value contains "Yes", and it
\* is false otherwise, also when the stanza has no Connected: line for it.
C3_ConnectedIffYes ==
    parsePc = "done" =>
        \A k \in 1..Len(sessions) : \A e \in {"alpha", "beta"} :
            /\ Has(sessions[k][e], "connected")
            /\ sessions[k][e].connected =
                   \E i \in 1..Len(Lines) :
                       /\ StanzaOf(i) = k /\ IsFieldLine(i, "Connected:")
                       /\ NearestMarker(i) = e
                       /\ ValueHasYes(i)

-----------------------------------------------------------------------------
(* Specification of sanitize_name: any name, sanitized twice *)

\* the characters connection names are built from
NameChars == {"a", "b", " ", "_", "-", "\t"}

Names == UNION { [1..n -> NameChars] : n \in 0..MaxNameLen }

InitSanitize ==
    /\ name \in Names
    /\ sanitized = <<>>
    /\ resanitized = <<>>
    /\ sanPc = "start"
    /\ IdleParse /\ IdleCreate /\ IdleConflicts /\ IdleOrch
    /\ IdleList /\ IdleRun /\ IdleCast

\* sanitize_name(name)
CallSanitize ==
    /\ sanPc = "start"
    /\ sanitized' = SanitizeName(name)
    /\ sanPc' = "once"
    /\ UNCHANGED <<name, resanitized, parseVars, createVars, conflictVars, orchVars,
                 listVars, runVars, castVars>>

\* sanitize_name applied to its own result
CallSanitizeAgain ==
    /\ sanPc = "once"
    /\ resanitized' = SanitizeName(sanitized)
    /\ sanPc' = "twice"
    /\ UNCHANGED <<name, sanitized, parseVars, createVars, conflictVars, orchVars,
                 listVars, runVars, castVars>>

NextSanitize == CallSanitize \/ CallSanitizeAgain

SpecSanitize == InitSanitize /\ [][NextSanitize]_vars

\* C4: sanitize_name is idempotent: sanitizing a sanitized name returns it
\* unchanged.
C4_SanitizeIdempotent ==
    sanPc = "twice" => resanitized = sanitized

\* C4 witness: a name that sanitize_name changed has been sanitized twice
C4_Witness ==
    /\ sanPc = "twice"
    /\ sanitized # name
    /\ Contains(name, " ") /\ Contains(name, "_")

\* C5: for every name the output of sanitize_name holds no whitespace
\* character and no underscore.
C5_NoWhitespaceNoUnderscore ==
    sanPc # "start" =>
        \A i \in 1..Len(sanitized) : sanitized[i] \notin Whitespace \cup {"_"}

-----------------------------------------------------------------------------
(* Specification of create_session: one call, with any descriptor, in any  *)
(* environment, on a ~/.ssh/config that is empty or holds an earlier entry *)

EarlierConfig ==
    [name |-> <<"a", " ", "b">>, host |-> "h1", port |-> 22, username |-> "u",
     remote_path |-> "/remote", local_path |-> "/local",
     ssh_key_path |-> "/k1", sync_mode |-> "two-way-safe",
     initial_sync_direction |-> ""]

InitCreate ==
    /\ mutagen_bin \in BOOLEAN
    /\ ssh_config \in {<<>>, SynthesizeEntry(EarlierConfig, <<>>)}
    /\ call = NoCall
    /\ createLog = {}
    /\ nCreates = 0
    /\ IdleParse /\ IdleSanitize /\ IdleConflicts /\ IdleOrch
    /\ IdleList /\ IdleRun /\ IdleCast

CreateOnce ==
    /\ call = NoCall
    /\ CreateSessionCall(AllCalls)

NextCreate == CreateOnce

SpecCreate == InitCreate /\ [][NextCreate]_vars

\* run_command was called with the creation arguments
CreateIssued == call.args # <<>>

\* C6: the last two arguments of the engine creation command are (remote URL,
\* local path) when sync_mode is one-way-replica and (local path, remote URL)
\* for every other mode, with or without an SSH key.  The remote URL is the
\* argument of the form user@...; the local path is config.local_path.
C6_EndpointOrderByMode ==
    CreateIssued =>
        LET n      == Len(call.args)
            local  == <<call.config.local_path>>
            remote(a) == Contains(a, "@") /\ a # local
        IN  IF call.config.sync_mode = "one-way-replica"
            THEN remote(call.args[n - 1]) /\ call.args[n] = local
            ELSE call.args[n - 1] = local /\ remote(call.args[n])

\* C6 witness: a one-way-replica creation with an SSH key in use
C6_Witness ==
    /\ CreateIssued
    /\ call.config.sync_mode = "one-way-replica"
    /\ call.config.ssh_key_path # ""
    /\ \E i \in 1..Len(call.steps) : call.steps[i].op = "ssh_config"

-----------------------------------------------------------------------------
(* Specification of repeated create_session calls on one ~/.ssh/config *)

InitSynth ==
    /\ mutagen_bin = TRUE
    /\ ssh_config = <<>>
    /\ call = NoCall
    /\ createLog = {}
    /\ nCreates = 0
    /\ IdleParse /\ IdleSanitize /\ IdleConflicts /\ IdleOrch
    /\ IdleList /\ IdleRun /\ IdleCast

CreateAgain ==
    /\ nCreates < MaxCreates
    /\ CreateSessionCall(SynthCalls)

NextSynth == CreateAgain

SpecSynth == InitSynth /\ [][NextSynth]_vars

\* the number of lines of ~/.ssh/config that are the marker of name n
MarkedBlocks(n) ==
    LET ls == SplitLines(ssh_config)
    IN  Cardinality({i \in 1..Len(ls) : ls[i] = <<"# Mutagen GUI: ">> \o n})

-----------------------------------------------------------------------------
(* Specification of get_session_conflicts: any verbose text, then one call *)

ConflictLines ==
    { <<>>,
      <<"Conflicts:">>,
      <<"(alpha)", " ", "f1">>,
      <<"(beta)", " ", "f1">>,
      <<"\t", "(alpha)", " ", " ", "f2">>,
      <<"(beta)", "\t", "f2", " ", "(modified)">>,
      <<"(alpha)">>,
      <<"(beta)", "f1", " ", "f3">>,
      <<"f1", " ", "(alpha)">> }

VerboseTexts ==
    { JoinLines(ls) :
          ls \in UNION { [1..n -> ConflictLines] : n \in 1..MaxConflictLines } }

InitConflicts ==
    /\ verbose \in VerboseTexts
    /\ verboseProc \in {"ok", "failed", "timeout"}
    /\ conflictsResp = NoResponse
    /\ conflictsPc = "call"
    /\ IdleParse /\ IdleSanitize /\ IdleCreate /\ IdleOrch
    /\ IdleList /\ IdleRun /\ IdleCast

CallGetSessionConflicts ==
    /\ conflictsPc = "call"
    /\ conflictsResp' =
           GetSessionConflicts(RunCommand(mutagen_bin, verboseProc), verbose)
    /\ conflictsPc' = "done"
    /\ UNCHANGED <<verbose, verboseProc, parseVars, sanVars, createVars, orchVars,
                 listVars, runVars, castVars>>

NextConflicts == CallGetSessionConflicts

SpecConflicts == InitConflicts /\ [][NextConflicts]_vars

\* the second whitespace-delimited tokens of the lines of the verbose text
\* that, trimmed, start with "(alpha)" or "(beta)" and have such a token
MarkedPaths ==
    LET ls == SplitLines(verbose) IN
    { SplitWords(ls[i])[2] :
          i \in { j \in 1..Len(ls) :
                    /\ StartsWith(Strip(ls[j]), "(alpha)")
                       \/ StartsWith(Strip(ls[j]), "(beta)")
                    /\ Len(SplitWords(ls[j])) >= 2 } }

\* C8: get_session_conflicts returns no two entries with the same path: each
\* distinct path that is the second token of a marker line yields exactly one
\* entry, a marker line without a second token yields none, and the reported
\* count is the number of entries.
C8_ConflictsDeduplicated ==
    conflictsResp.status = "200" =>
        LET cs == conflictsResp.conflicts IN
        /\ \A i, j \in 1..Len(cs) : cs[i].path = cs[j].path => i = j
        /\ { cs[i].path : i \in 1..Len(cs) } = MarkedPaths
        /\ conflictsResp.count = Len(cs)

\* C8 witness: the same path under both markers, another path, and a marker
\* line with no path, answered with two entries
C8_Witness ==
    LET ls == SplitLines(verbose) IN
    /\ conflictsResp.status = "200"
    /\ conflictsResp.count = 2
    /\ \E i, j, k \in 1..Len(ls) :
           /\ ls[i] = <<"(alpha)", " ", "f1">>
           /\ ls[j] = <<"(beta)", " ", "f1">>
           /\ Len(SplitWords(ls[k])) >= 2 /\ SplitWords(ls[k])[2] # <<"f1">>
    /\ conflictsResp.conflicts[1] = [path |-> <<"f1">>]

-----------------------------------------------------------------------------
(* Specification of the handlers: requests one after the other, on any      *)
(* sessions the engine may hold                                            *)

LocalPath == <<"/local">>

RemotePath == <<"u", "@", "h1", ":", "/remote">>

\* the sessions create_session and resolve_conflicts leave in the engine
EngineSessions ==
    { [name |-> n, alpha |-> e[1], beta |-> e[2], paused |-> p] :
          n \in OrchNames,
          e \in {<<LocalPath, RemotePath>>, <<RemotePath, LocalPath>>},
          p \in BOOLEAN }

InitOrch ==
    /\ engine \in UNION { [1..n -> EngineSessions] : n \in 0..MaxSessions }
    /\ reqs = [r \in Slots |-> NoRequest]
    /\ mutagen_bin \in BOOLEAN
    /\ ssh_config = <<>>
    /\ call = NoCall
    /\ createLog = {}
    /\ nCreates = 0
    /\ IdleParse /\ IdleSanitize /\ IdleConflicts
    /\ IdleList /\ IdleRun /\ IdleCast

NextOrch ==
    \E r \in {1} :
        \/ StartAction(r)
        \/ RunAction(r)
        \/ StartResolve(r)
        \/ ResolveList(r)
        \/ ResolveTerminate(r)
        \/ ResolveCreate(r)
        \/ Retire(r)

SpecOrch == InitOrch /\ [][NextOrch]_vars

\* the run_command calls of the request in slot r with the subcommand sub
CallsOf(r, sub) ==
    {j \in 1..Len(reqs[r].trace) : reqs[r].trace[j].cmd[2] = <<sub>>}

\* the request in slot r has failed validation
Rejected(r) ==
    \/ reqs[r].op = "action" /\ reqs[r].arg \notin ValidActions
    \/ reqs[r].op = "resolve" /\ reqs[r].arg \notin {"alpha", "beta"}

\* C9: a request that fails validation is rejected before any process spawn:
\* an action outside {resume, pause, flush, terminate, reset}, or a
\* resolution whose winner is outside {alpha, beta}, ends as a failure and
\* has made no run_command call at all (no list, no terminate, no create, no
\* action)
C9_ValidationBeforeSpawn ==
    \A r \in Slots :
        Rejected(r) =>
            /\ reqs[r].trace = <<>>
            /\ reqs[r].pc = "done"
            /\ reqs[r].status = "500"
            /\ reqs[r].event = EmptyDict

C9_Witness ==
    /\ reqs[1].op = "resolve"
    /\ reqs[1].arg = "gamma"
    /\ reqs[1].pc = "done"
    /\ reqs[1].trace = <<>>
    /\ engine # <<>>
    /\ mutagen_bin

\* C10: a resolution of a session the list shows with alpha URL A and beta
\* URL B calls "sync terminate <name>" right after the list; a "sync create"
\* is called at most once, only right after a terminate that succeeded, and it
\* is then always called; its mode is one-way-replica and its endpoints are
\* (A, B) when the winner is alpha and (B, A) when the winner is beta; a
\* terminate that failed is the last call of the request
C10_TerminateThenReplicaCreate ==
    \A r \in Slots :
        reqs[r].op = "resolve" =>
            LET req == reqs[r]
                t   == req.trace
                A   == req.listed.alpha
                B   == req.listed.beta
            IN  /\ \A j \in CallsOf(r, "terminate") :
                       /\ j = 2
                       /\ t[1] = [cmd |-> ListArgs, out |-> "ok"]
                       /\ t[j].cmd = << <<"sync">>, <<"terminate">>, req.name >>
                       /\ t[j].out # "ok" => Len(t) = j /\ req.status = "500"
                       /\ t[j].out = "ok" /\ req.pc = "done" => Len(t) = 3
                /\ \A j \in CallsOf(r, "create") :
                       /\ j = 3
                       /\ Len(t) = 3
                       /\ t[2].cmd[2] = <<"terminate">>
                       /\ t[2].out = "ok"
                       /\ t[j].cmd[3] = <<"--name=">> \o req.name
                       /\ t[j].cmd[4] = <<"--mode=", "one-way-replica">>
                       /\ Len(t[j].cmd) = 8
                       /\ req.arg = "alpha" => t[j].cmd[7] = A /\ t[j].cmd[8] = B
                       /\ req.arg = "beta" => t[j].cmd[7] = B /\ t[j].cmd[8] = A
                /\ req.pc \in {"terminate", "create"} \/ Len(t) >= 2 =>
                       /\ Has(req.listed, "alpha")
                       /\ req.session.alpha.url = A
                       /\ req.session.beta.url = B
                /\ req.pc = "terminate" => Len(t) = 1
                /\ req.pc = "create" => Len(t) = 2

C10_Witness ==
    /\ reqs[1].op = "resolve"
    /\ reqs[1].arg = "beta"
    /\ reqs[1].status = "200"
    /\ reqs[1].listed.alpha = LocalPath
    /\ reqs[1].listed.beta = RemotePath
    /\ Len(reqs[1].trace) = 3
    /\ reqs[1].trace[3].cmd[7] = RemotePath
    /\ reqs[1].trace[3].cmd[8] = LocalPath

\* C11: a resolution for a name the engine's list does not show fails as a
\* not-found condition (404, not the generic 500) and calls neither terminate
\* nor create
C11_UnknownSessionIs404 ==
    \A r \in Slots :
        /\ reqs[r].op = "resolve"
        /\ reqs[r].pc = "done"
        /\ Len(reqs[r].trace) >= 1
        /\ reqs[r].trace[1] = [cmd |-> ListArgs, out |-> "ok"]
        /\ reqs[r].listed = EmptyDict
        => /\ reqs[r].status = "404"
           /\ CallsOf(r, "terminate") = {}
           /\ CallsOf(r, "create") = {}

-----------------------------------------------------------------------------
(* Specification of the list_sessions endpoint: requests one after the      *)
(* other, on any engine and daemon                                          *)

InitList ==
    /\ daemon \in {"running", "stopped"}
    /\ listReq = NoListRequest
    /\ engine \in UNION { [1..n -> EngineSessions] : n \in 0..MaxSessions }
    /\ reqs = [r \in Slots |-> NoRequest]
    /\ mutagen_bin \in BOOLEAN
    /\ ssh_config = <<>>
    /\ call = NoCall
    /\ createLog = {}
    /\ nCreates = 0
    /\ IdleParse /\ IdleSanitize /\ IdleConflicts /\ IdleRun /\ IdleCast

NextList ==
    \/ ListDaemonStatus
    \/ ListStartDaemon
    \/ ListSessions
    \/ ListRetire

SpecList == InitList /\ [][NextList]_vars

\* the calls of the list request that ended as out
ListCallsEnding(out) ==
    {j \in 1..Len(listReq.trace) : listReq.trace[j].out = out}

\* C12, as stated: when any engine invocation of the list_sessions endpoint
\* times out, the endpoint answers with the empty list
C12_AnyTimeoutGivesEmptyList ==
    listReq.pc = "done" /\ ListCallsEnding("timeout") # {}
    => listReq.status = "200" /\ listReq.body = <<>>

\* C12, amended: when the "daemon start" or the "sync list" invocation of the
\* list_sessions endpoint times out, the endpoint answers with the empty list
\* and not with a failure (a "daemon list" that times out only makes
\* daemon_status report "stopped")
C12_TimeoutGivesEmptyList ==
    /\ listReq.pc = "done"
    /\ \E j \in ListCallsEnding("timeout") :
           listReq.trace[j].cmd \in {DaemonStartArgs, ListArgs}
    => listReq.status = "200" /\ listReq.body = <<>>

C12_Witness ==
    /\ listReq.pc = "done"
    /\ Len(listReq.trace) = 3
    /\ listReq.trace[3].cmd = ListArgs
    /\ listReq.trace[3].out = "timeout"
    /\ listReq.status = "200"
    /\ listReq.body = <<>>
    /\ engine # <<>>

\* C13: the list_sessions endpoint swallows timeouts only: when its "daemon
\* start" or "sync list" process exits non-zero, whatever it printed, the
\* endpoint answers with a failure and never with the empty list
C13_OnlyTimeoutsSwallowed ==
    /\ listReq.pc = "done"
    /\ \E j \in ListCallsEnding("failed") :
           listReq.trace[j].cmd \in {DaemonStartArgs, ListArgs}
    => listReq.status = "500"

\* C14: the list_sessions endpoint asks for the daemon status first and runs
\* "daemon start" if and only if the daemon is not running: when
\* daemon_status reported "running", the request makes no "daemon start" call
C14_StartsDaemonOnlyWhenStopped ==
    /\ listReq.trace # <<>> => listReq.trace[1].cmd = DaemonListArgs
    /\ listReq.daemon_status = "running" =>
           \A j \in 1..Len(listReq.trace) :
               listReq.trace[j].cmd # DaemonStartArgs
    /\ listReq.daemon_status = "stopped" /\ Len(listReq.trace) >= 2 =>
           listReq.trace[2].cmd = DaemonStartArgs

\* the steps of the last create_session call that ran op
StepsOf(op) == {i \in 1..Len(call.steps) : call.steps[i].op = op}

\* the initial copy of the call ran and failed (non-zero exit or timeout)
InitialCopyFailed(c) ==
    \E i \in 1..Len(c.steps) : c.steps[i].op = "rsync" /\ c.steps[i].out # "ok"

\* C15, in each state: the initial copy runs iff initial_sync_direction is set
\* and is not 'skip'; it is the first step, before the engine creation
\* command; when it fails, the call fails without the creation command and
\* without any step on the key file or the SSH config
C15_InitialCopyGate ==
    call # NoCall =>
        /\ StepsOf("rsync") # {}
               <=> call.config.initial_sync_direction \notin {"", "skip"}
        /\ \A i \in StepsOf("rsync") :
               /\ i = 1
               /\ \A j \in StepsOf("run_command") : i < j
        /\ InitialCopyFailed(call) =>
               /\ Len(call.steps) = 1
               /\ call.args = <<>>
               /\ call.result = "initial_sync_failed"

\* C15: the initial bulk copy runs if and only if initial_sync_direction is
\* set and is not 'skip', it runs before the engine creation command, and a
\* call whose initial copy fails issues no creation command and leaves the
\* text of the SSH config as it was
C15_InitialCopyFirst ==
    /\ []C15_InitialCopyGate
    /\ [][call' # call /\ InitialCopyFailed(call') => ssh_config' = ssh_config]_vars

C15_Witness ==
    /\ call # NoCall
    /\ call.steps = Step("rsync", "timeout")
    /\ call.config.ssh_key_path # ""
    /\ call.config.initial_sync_direction = "download"
    /\ call.result = "initial_sync_failed"
    /\ ssh_config # <<>>

\* the remote URL among the arguments of the creation command
RemoteArg ==
    IF call.config.sync_mode = "one-way-replica"
    THEN call.args[Len(call.args) - 1]
    ELSE call.args[Len(call.args)]

\* C16: whenever the descriptor names a key file, the remote URL handed to
\* the engine addresses the host by the alias mutagen-<sanitized name>; only
\* when it names none is the URL user@host:path (port 22) or
\* user@host:port:path (another port)
C16_KeyFileMeansAlias ==
    CreateIssued /\ call.result # "binary_not_found" =>
        LET cfg == call.config IN
        IF cfg.ssh_key_path # ""
        THEN RemoteArg = <<cfg.username, "@", "mutagen-">>
                         \o SanitizeName(cfg.name) \o <<":", cfg.remote_path>>
        ELSE IF cfg.port = 22
        THEN RemoteArg = <<cfg.username, "@", cfg.host, ":", cfg.remote_path>>
        ELSE RemoteArg = <<cfg.username, "@", cfg.host, ":", PortText(cfg.port),
                           ":", cfg.remote_path>>

\* C17: the best-effort sub-steps never fail create_session: when the
\* permission fix of the key file fails, or when the credential agent cannot
\* be queried or updated, the call still issues the engine creation command
\* and its result is the result of that command
C17_BestEffortSubSteps ==
    call # NoCall /\ ~InitialCopyFailed(call) =>
        /\ StepsOf("run_command") = {Len(call.steps)}
        /\ CreateIssued
        /\ call.result = call.steps[Len(call.steps)].out

-----------------------------------------------------------------------------
(* Specification of run_command: calls one after the other, on any process *)

InitRun ==
    /\ run = NoRun
    /\ mutagen_bin \in BOOLEAN
    /\ ssh_config = <<>>
    /\ call = NoCall
    /\ createLog = {}
    /\ nCreates = 0
    /\ IdleParse /\ IdleSanitize /\ IdleConflicts /\ IdleOrch
    /\ IdleList /\ IdleCast

NextRun ==
    \/ RunCall
    \/ RunSpawn
    \/ RunWait
    \/ RunReturn

SpecRun == InitRun /\ [][NextRun]_vars

\* C18: every run_command call ends in exactly one of four outcomes and
\* spawns at most one process, with no retry: without a resolved binary it
\* raises BinaryNotFound and spawns nothing; a process that does not finish
\* within the bound gives Timeout; one that exits non-zero gives CommandFailed
\* with stderr, or stdout when stderr is empty; otherwise the call returns
\* stdout
C18_FourOutcomesOneSpawn ==
    /\ Len(run.spawned) <= 1
    /\ run.pc = "done" =>
           LET p == run.proc IN
           /\ run.out \in {"binary_not_found", "failed", "timeout", "ok"}
           /\ run.out = "binary_not_found"
                  <=> ~mutagen_bin
           /\ run.out = "binary_not_found" => run.spawned = <<>>
           /\ run.out # "binary_not_found" => run.spawned = <<run.args>>
           /\ run.out = "timeout"
                  <=> mutagen_bin /\ ~p.finishes
           /\ run.out = "timeout" => run.message = TimeoutMessage
           /\ run.out = "failed"
                  <=> mutagen_bin /\ p.finishes /\ p.returncode # 0
           /\ run.out = "failed" =>
                  run.message = <<"Command", " ", "failed:", " ">>
                                \o (IF p.stderr = <<>> THEN p.stdout ELSE p.stderr)
           /\ run.out = "ok"
                  <=> mutagen_bin /\ p.finishes /\ p.returncode = 0
           /\ run.out = "ok" => run.value = p.stdout

C18_Witness ==
    /\ run.pc = "done"
    /\ run.out = "failed"
    /\ run.proc.stderr = <<>>
    /\ run.proc.stdout = FailedStdout
    /\ run.message = <<"Command", " ", "failed:", " ">> \o FailedStdout
    /\ Len(run.spawned) = 1

\* the sessions of ss that are not named n
Others(ss, n) == SelectSeq(ss, LAMBDA x : x.name # n)

\* ss with the paused flag of every session named n set to p
WithPaused(ss, n, p) ==
    [i \in 1..Len(ss) |->
        IF ss[i].name = n THEN [ss[i] EXCEPT !.paused = p] ELSE ss[i]]

\* what the action kind on the session named n may do to the engine's
\* sessions, from before to after
LifecycleStep(kind, n, before, after) ==
    /\ Others(after, n) = Others(before, n)
    /\ Len(after) <= Len(before)
    /\ kind \in {"flush", "reset"} => after = before
    /\ kind = "pause" => after \in {before, WithPaused(before, n, TRUE)}
    /\ kind = "resume" => after \in {before, WithPaused(before, n, FALSE)}
    /\ kind = "terminate" => after \in {before, Others(before, n)}

\* C19, in each state: a valid action that has been carried out made exactly
\* one run_command call, "sync <kind> <name>" with the kind and the name of
\* the request
C19_OneForwardedCall ==
    \A r \in Slots :
        reqs[r].op = "action" /\ reqs[r].pc = "done"
        /\ reqs[r].arg \in {"resume", "pause", "flush", "terminate", "reset"}
        => /\ Len(reqs[r].trace) = 1
           /\ reqs[r].trace[1].cmd
                  = << <<"sync">>, <<reqs[r].arg>>, reqs[r].name >>

\* C19: through perform_action a session only moves between running and
\* paused (pause, resume), stays as it is (flush, reset) or is removed
\* (terminate): each valid action is forwarded as one "sync <kind> <name>"
\* with kind and name unchanged, no action creates a session and none
\* touches a session of another name
C19_ActionLifecycle ==
    /\ []C19_OneForwardedCall
    /\ [][\A r \in Slots :
              reqs[r].op = "action" /\ reqs'[r] # reqs[r] =>
                  LifecycleStep(reqs[r].arg, reqs[r].name, engine, engine')]_vars

C19_Witness ==
    /\ reqs[1].op = "action"
    /\ reqs[1].arg = "pause"
    /\ reqs[1].name = <<"demo">>
    /\ reqs[1].status = "200"
    /\ Len(engine) = 2
    /\ engine[1].name = <<"demo">> /\ engine[1].paused
    /\ engine[2].name = <<"web">> /\ ~engine[2].paused

-----------------------------------------------------------------------------
(* Specification of ConnectionManager: broadcasts one after the other,      *)
(* websockets connecting and disconnecting meanwhile                        *)

InitCast ==
    /\ active_connections = <<>>
    /\ cast = NoCast
    /\ IdleParse /\ IdleSanitize /\ IdleCreate /\ IdleConflicts /\ IdleOrch
    /\ IdleList /\ IdleRun

NextCast ==
    \/ \E w \in Subscribers : Connect(w)
    \/ \E w \in Subscribers : Disconnect(w)
    \/ Broadcast
    \/ SendJson
    \/ CastRetire

SpecCast == InitCast /\ [][NextCast]_vars

\* C20: broadcast isolates send failures: when a send has failed, send_json
\* is still called for every subscriber that is registered for the whole
\* broadcast; broadcast does not raise, and the endpoint that sent the event
\* answers with its success payload
C20_BroadcastIsolatesFailures ==
    cast.pc = "done" =>
        /\ cast.status = "200"
        /\ cast.failed # {} => \A w \in cast.stayed : w \in Range(cast.sent)

\* C21: winner alpha means local and winner beta means remote: whichever
\* mode the session was created in and whatever resolutions came before, the
\* recreation has the local path as source and the remote URL as destination
\* for winner alpha, and the remote URL as source and the local path as
\* destination for winner beta
C21_AlphaIsLocal ==
    \A r \in Slots :
        reqs[r].op = "resolve" =>
            \A j \in CallsOf(r, "create") :
                LET cmd == reqs[r].trace[j].cmd IN
                /\ reqs[r].arg = "alpha" =>
                       cmd[7] = LocalPath /\ cmd[8] = RemotePath
                /\ reqs[r].arg = "beta" =>
                       cmd[7] = RemotePath /\ cmd[8] = LocalPath

-----------------------------------------------------------------------------
(* Specification of the handlers on an engine whose list may leave out the  *)
(* URL: line of an endpoint                                                 *)

\* sessions listed without the URL of one endpoint
PartialSessions ==
    { [name |-> n, alpha |-> e[1], beta |-> e[2], paused |-> FALSE] :
          n \in OrchNames,
          e \in {<<LocalPath, <<>>>>, <<<<>>, RemotePath>>} }

InitPartial ==
    /\ engine \in UNION { [1..n -> EngineSessions \cup PartialSessions] :
                              n \in 0..MaxSessions }
    /\ reqs = [r \in Slots |-> NoRequest]
    /\ mutagen_bin = TRUE
    /\ ssh_config = <<>>
    /\ call = NoCall
    /\ createLog = {}
    /\ nCreates = 0
    /\ IdleParse /\ IdleSanitize /\ IdleConflicts
    /\ IdleList /\ IdleRun /\ IdleCast

SpecPartial == InitPartial /\ [][NextOrch]_vars

\* the record the resolution in slot r found in the list lacks a URL
LacksUrl(r) ==
    /\ reqs[r].session # EmptyDict
    /\ ~Has(reqs[r].session.alpha, "url") \/ ~Has(reqs[r].session.beta, "url")

\* C22: resolve_conflicts has both endpoint URLs before it terminates the
\* session: when the listed record lacks the alpha or the beta URL, the call
\* fails without a terminate call, so that no resolution terminates a session
\* it cannot recreate
C22_UrlsBeforeTerminate ==
    \A r \in Slots :
        reqs[r].op = "resolve" /\ LacksUrl(r) =>
            /\ CallsOf(r, "terminate") = {}
            /\ reqs[r].pc = "done" => reqs[r].status # "200"

\* C23, after the list: a resolution that found the session in the list and
\* then reported a failure has left a session of that name in the engine
C23_FailedResolveKeepsSession ==
    \A r \in Slots :
        /\ reqs[r].op = "resolve"
        /\ reqs[r].pc = "done"
        /\ reqs[r].status # "200"
        /\ reqs[r].listed # EmptyDict
        => Matching(engine, reqs[r].name) # {}

\* C23: resolve_conflicts is all-or-nothing for the existence of the session:
\* whenever a call reports a failure, at the list, the terminate or the create
\* step, a session that existed under the name before the call still exists
\* afterwards (the validation and list steps leave the engine's sessions as
\* they are, and a failure after them leaves a session of that name)
C23_AllOrNothing ==
    /\ []C23_FailedResolveKeepsSession
    /\ [][\A r \in Slots :
              reqs[r].op = "resolve" /\ reqs[r].pc = "list"
              /\ reqs'[r] # reqs[r] => engine' = engine]_vars

\* the number of lines of ~/.ssh/config that open the block of the alias of
\* the connection name n
HostBlocks(n) ==
    LET ls == SplitLines(ssh_config)
    IN  Cardinality({i \in 1..Len(ls) :
                        ls[i] = <<"Host ", "mutagen-">> \o SanitizeName(n)})

\* C24: after any sequence of create_session calls with existing key files,
\* also for names of which one is a prefix of another or that differ only in
\* space, underscore or hyphen, every host alias mutagen-<sanitized name>
\* used in a remote URL handed to the engine has exactly one "Host <alias>"
\* block in the text of the SSH config
C24_OneHostBlockPerAlias ==
    \A c \in createLog :
        c.key_exists /\ c.synthesized => HostBlocks(c.name) = 1

-----------------------------------------------------------------------------
(* Specification of quick_connect: calls one after the other                *)

InitConnect ==
    /\ engine \in {<<>>}
                  \cup {<<[name |-> <<"a">>, alpha |-> LocalPath,
                           beta |-> RemotePath, paused |-> p]>> : p \in BOOLEAN}
    /\ reqs = [r \in Slots |-> NoRequest]
    /\ mutagen_bin \in BOOLEAN
    /\ ssh_config = <<>>
    /\ call = NoCall
    /\ createLog = {}
    /\ nCreates = 0
    /\ IdleParse /\ IdleSanitize /\ IdleConflicts
    /\ IdleList /\ IdleRun /\ IdleCast

NextConnect ==
    \E r \in {1} :
        \/ QuickList(r)
        \/ QuickResume(r)
        \/ QuickCreate(r)
        \/ Retire(r)

SpecConnect == InitConnect /\ [][NextConnect]_vars

\* C25: quick_connect issues one of resume and create, never both: it resumes
\* when the list it read holds a session named as the sanitized connection
\* name and calls create_session otherwise; it issues no creation for a name
\* that list holds; and after any sequence of quick_connect calls, one after
\* the other, the engine holds at most one session of each name
C25_ResumeOrCreate ==
    /\ \A r \in Slots :
           reqs[r].op = "connect" =>
               LET req == reqs[r] IN
               /\ Cardinality(CallsOf(r, "resume") \cup CallsOf(r, "create")) <= 1
               /\ req.name = SanitizeName(req.config.name)
               /\ req.pc = "resume" \/ CallsOf(r, "resume") # {}
                      => req.name \in req.listed
               /\ req.pc = "create_session" \/ CallsOf(r, "create") # {}
                      => req.name \notin req.listed
               /\ \A j \in CallsOf(r, "create") :
                      req.trace[j].cmd[3] = <<"--name=">> \o req.name
               /\ \A j \in CallsOf(r, "resume") :
                      req.trace[j].cmd[3] = req.name
               /\ req.status = "200" =>
                      /\ Len(req.trace) = 2
                      /\ req.trace[1] = [cmd |-> ListArgs, out |-> "ok"]
    /\ \A i, j \in 1..Len(engine) : engine[i].name = engine[j].name => i = j

C25_Witness ==
    /\ reqs[1].op = "connect"
    /\ reqs[1].config.name = <<"a", "_", "b">>
    /\ reqs[1].status = "200"
    /\ reqs[1].arg = "resumed"
    /\ Len(engine) = 2
    /\ engine[2].name = <<"a", "-", "b">>

-----------------------------------------------------------------------------
(* Specification of two resolve_conflicts calls in flight at once, on an    *)
(* engine whose commands fail only when it rejects them                     *)

\* one session of each name, in either direction
InitRace ==
    /\ engine \in { <<a, b>> : a \in {s \in EngineSessions : s.name = <<"demo">>},
                               b \in {s \in EngineSessions : s.name = <<"web">>} }
    /\ reqs = [r \in Slots |-> NoRequest]
    /\ mutagen_bin = TRUE
    /\ ssh_config = <<>>
    /\ call = NoCall
    /\ createLog = {}
    /\ nCreates = 0
    /\ IdleParse /\ IdleSanitize /\ IdleConflicts
    /\ IdleList /\ IdleRun /\ IdleCast

\* the run_command call the step of slot r made exits 0 iff the engine
\* accepts the command
HealthyStep(r) ==
    LET before == reqs[r].trace
        after  == reqs'[r].trace
    IN  Len(after) > Len(before) =>
            after[Len(after)].out =
                IF EngineAccepts(engine, after[Len(after)].cmd)
                THEN "ok" ELSE "failed"

\* the handlers are coroutines of one event loop: between two awaits of one
\* call any step of the other may run
RaceList(r) == ResolveList(r) /\ HealthyStep(r)

RaceTerminate(r) == ResolveTerminate(r) /\ HealthyStep(r)

RaceCreate(r) == ResolveCreate(r) /\ HealthyStep(r)

NextRace ==
    \E r \in Slots :
        \/ StartResolve(r)
        \/ RaceList(r)
        \/ RaceTerminate(r)
        \/ RaceCreate(r)

SpecRace == InitRace /\ [][NextRace]_vars

\* some call other than r, for the same session, has terminated it
TerminatedByOther(r) ==
    \E q \in Slots \ {r} :
        /\ reqs[q].op = "resolve"
        /\ reqs[q].name = reqs[r].name
        /\ \E j \in CallsOf(q, "terminate") : reqs[q].trace[j].out = "ok"

\* a resolve call with a valid winner fails only as 'session not found' or
\* 'command failed', and only after another call has terminated its session
C26_FailsOnlyByRace ==
    \A r \in Slots :
        /\ reqs[r].op = "resolve"
        /\ reqs[r].status = "500"
        /\ ValidWinner(reqs[r].arg)
        => /\ reqs[r].detail \in {"session_not_found", "command_failed"}
           /\ TerminatedByOther(r)

\* C26: nothing serialises two resolve_conflicts calls for one session: a
\* list or terminate step of one call that runs between the terminate and the
\* create of the other makes that call fail, as 'session not found' or
\* 'command failed', although the session existed when both calls started;
\* on a healthy engine this is the only way a call with a valid winner fails
C26_ResolveRace ==
    /\ []C26_FailsOnlyByRace
    /\ [][\A r \in Slots : \A q \in Slots \ {r} :
              /\ reqs[q].op = "resolve" /\ reqs[q].pc = "create"
              /\ reqs[r].op = "resolve" /\ reqs[r].name = reqs[q].name
              /\ reqs[r].pc \in {"list", "terminate"}
              /\ reqs'[r] # reqs[r]
              => /\ reqs'[r].status = "500"
                 /\ reqs'[r].detail =
                        IF reqs[r].pc = "list" THEN "session_not_found"
                        ELSE "command_failed"]_vars

\* call 1 listed the session, call 2 terminated it and has not recreated it
\* yet, and the terminate of call 1 has failed
C26_Witness ==
    /\ reqs[1].op = "resolve" /\ reqs[2].op = "resolve"
    /\ reqs[1].name = reqs[2].name
    /\ reqs[1].listed # EmptyDict
    /\ reqs[1].status = "500" /\ reqs[1].detail = "command_failed"
    /\ reqs[2].pc = "create"
    /\ Matching(engine, reqs[1].name) = {}

-----------------------------------------------------------------------------
(* The broadcast and the websocket handlers, again *)

\* the send_json calls the broadcast made on w
SendsTo(w) == {j \in 1..Len(cast.sent) : cast.sent[j] = w}

\* C27: when the broadcast returns, every subscriber that was registered from
\* its start to its end and on which no send_json call failed has had the
\* message sent to it exactly once, whichever other subscribers failed or
\* were removed by disconnect while the broadcast was suspended in a send
C27_ExactlyOnce ==
    cast.pc = "done" =>
        \A w \in cast.stayed \ cast.failed : Cardinality(SendsTo(w)) = 1

-----------------------------------------------------------------------------
(* Specification of the endpoints that emit lifecycle events *)

InitEvents ==
    /\ engine \in UNION { [1..n -> EngineSessions] : n \in 0..1 }
    /\ reqs = [r \in Slots |-> NoRequest]
    /\ mutagen_bin \in BOOLEAN
    /\ ssh_config = <<>>
    /\ call = NoCall
    /\ createLog = {}
    /\ nCreates = 0
    /\ IdleParse /\ IdleSanitize /\ IdleConflicts
    /\ IdleList /\ IdleRun /\ IdleCast

NextEvents ==
    \E r \in {1} :
        \/ CreateSessionEndpoint(r)
        \/ StartAction(r)
        \/ RunAction(r)
        \/ Retire(r)

SpecEvents == InitEvents /\ [][NextEvents]_vars

\* the last run_command call of the request in slot r was cmd and exited 0
LastRanOk(r, cmd) ==
    LET t == reqs[r].trace
    IN  Len(t) > 0 /\ t[Len(t)] = [cmd |-> cmd, out |-> "ok"]

\* C28: lifecycle events follow success: a create call has broadcast
\* 'session_created' only if its "sync create" command exited 0, an action
\* call has broadcast 'session_action' with the session name and the action
\* only if its engine command exited 0, and a call that failed (validation,
\* command failed, timeout, no binary) has broadcast nothing
C28_EventsFollowSuccess ==
    \A r \in Slots :
        LET req == reqs[r] IN
        /\ req.op \in {"create", "action"} /\ req.status # "200"
               => req.event = EmptyDict
        /\ req.op = "create" /\ req.event # EmptyDict =>
               /\ req.event = [type |-> "session_created", name |-> req.config.name]
               /\ \E env \in EndpointEnvsFor(req.config) :
                      LastRanOk(r, CreateArgs(req.config, env))
        /\ req.op = "action" /\ req.event # EmptyDict =>
               /\ req.event = [type |-> "session_action", session |-> req.name,
                               action |-> req.arg]
               /\ LastRanOk(r, ActionArgs(req.name, req.arg))

C28_Witness ==
    /\ reqs[1].op = "create"
    /\ reqs[1].status = "200"
    /\ reqs[1].event = [type |-> "session_created", name |-> <<"a", " ", "b">>]
    /\ Len(engine) = 2
    /\ engine[2].name = <<"a", "-", "b">>
    /\ engine[1].paused

=============================================================================
